---- MODULE Spec2Model ----
(***************************************************************************)
(* Voice session client and UI synchronisation layer of BitComm.           *)
(*                                                                         *)
(* VoiceContext.js (VoiceProvider) owns the session: microphone stream,    *)
(* WebSocket, audio contexts, the playback queue and the voice-update      *)
(* flag.  Products.js (src/unnamed/part_005) owns the product view and the *)
(* HTTP refresh.  Every browser callback (event handler, promise           *)
(* continuation, timer, React effect) is one action: the handlers run to   *)
(* completion on a single thread and interleave only at their awaits.      *)
(***************************************************************************)
EXTENDS Integers, Sequences, FiniteSets, TLC

\* ------------------------------------------------------------------ bounds
MaxSessions == 2      \* startVoice invocations explored
MaxFrames   == 4      \* inbound audio frames explored in one session
RestartFrames == 2    \* inbound audio frames explored across restarts
MaxTimers   == 2      \* flag-clear timers pending at once
MaxFetches  == 2      \* HTTP product fetches in flight at once
MaxCaptured == 2      \* microphone buffers captured
MaxCartEvents == 2    \* ADD_TO_CART events handled
MaxQuantity == 3      \* largest quantity of a cart entry explored
MaxSteps == 18        \* samples explored reach MaxSteps/16 on both sides of 0

Sessions   == 1..MaxSessions
NoRef      == 0       \* a ref whose .current is null
FrameSizes == {2, 3}  \* byte lengths of inbound audio frames
Transcripts == {1, 2} \* transcript texts; 0 is the empty string

VARIABLES
  \* ---- VoiceProvider React state (VoiceContext.js:23-37)
  isConnected, isListening, isProcessing, isSpeaking, isMuted,
  userTranscript, assistantTranscript,
  \* ---- VoiceProvider refs (VoiceContext.js:53-58)
  wsRef, audioContextRef, mediaStreamRef, processorRef,
  playbackQueue, isPlayingRef,
  \* ---- browser objects created by startVoice invocation i
  startPc,      \* position of invocation i of startVoice
  ws,           \* readyState of the WebSocket it created
  stream,       \* the microphone MediaStream it acquired
  trackEnabled, \* enabled flag of that stream's audio track
  playCtx,      \* the playback AudioContext it created
  capCtx,       \* the capture AudioContext of startAudioStreaming
  processor,    \* the ScriptProcessor of startAudioStreaming
  \* ---- inbound audio
  blobs,        \* frames whose Blob.arrayBuffer() has not resolved yet
  renders,      \* activations of playNextAudio past the guard
  arrived,      \* number of audio frames received so far
  \* ---- observation of the playback order
  pushed,       \* number of frames pushed on the queue so far
  lastStarted,  \* push number of the frame playNextAudio took last
  flushMark,    \* frames arrived when clear_audio_queue was handled last
  flushed,      \* frames dropped by clear_audio_queue since the last push;
                \* -1 when a frame was pushed after the last flush
  \* ---- VoiceProvider UI synchronisation (VoiceContext.js:33-50)
  lastProducts,
  voiceUpdateFlagRef,     \* the voice-update-in-flight flag
  pendingVoiceUpdateRef,  \* <<>> is null, <<p>> holds the pending update p
  callbackRefs,           \* the five on...Ref refs, registered together
  clearTimers,            \* setTimeout callbacks of line 125 not yet run
  location,               \* the router's current path
  \* ---- Products view (part_005:155-183); defaults while not mounted
  mounted,
  products, total, loading,
  selectedCategory, priceRange,
  fetches,                \* fetchProducts calls awaiting their response
  refreshPending,         \* the refresh effect is due (fetchProducts changed)
  lastRefresh,            \* what the refresh effect did when it ran last
  \* ---- outbound audio and error events
  captured,     \* number of microphone buffers onaudioprocess was given
  sent,         \* the buffers, by number, passed to WebSocket.send
  lastError,    \* text of the error event handled last; 0 before any
  \* ---- Products comparison state (part_005:182-183)
  compareList, isCompareOpen,
  \* ---- CartProvider state (CartContext.js:17) and its observation
  cartItems,    \* items: sequence of [id, quantity]
  cartEvents,   \* ADD_TO_CART events carrying a product handled so far
  cartAdds,     \* calls of addToCart by the voice cart callback so far
  \* ---- one sample through the PCM conversions (VoiceContext.js:283-288,
  \*      322-327); <<>> is "none yet"
  sample,       \* the Float32 sample, in units of 1/SampleDenom
  pcm16,        \* <<v>>: the Int16 value stored for it
  decoded,      \* <<d>>: the Float32 value read back, in the same units
  \* ---- observation of the manual filter inputs
  filterEdited  \* the user changed a filter and no fetch was issued since

sessionVars == <<isConnected, isListening, isProcessing, isSpeaking, isMuted,
                 userTranscript, assistantTranscript,
                 wsRef, audioContextRef, mediaStreamRef, processorRef,
                 startPc, ws, stream, trackEnabled, playCtx, capCtx, processor>>
audioVars == <<playbackQueue, isPlayingRef, blobs, renders, arrived,
               pushed, lastStarted, flushMark, flushed>>
voiceUiVars == <<lastProducts, voiceUpdateFlagRef,
                 pendingVoiceUpdateRef, callbackRefs, clearTimers, location>>
viewVars == <<mounted, products, total, loading, selectedCategory,
              priceRange, fetches, refreshPending, lastRefresh>>
uiVars == <<voiceUiVars, viewVars>>
wireVars == <<captured, sent, lastError>>
modalVars == <<compareList, isCompareOpen>>
cartVars == <<cartItems, cartEvents, cartAdds>>
codecVars == <<sample, pcm16, decoded>>
sideVars == <<wireVars, modalVars, cartVars, codecVars>>
extVars == <<sideVars, filterEdited>>
vars == <<sessionVars, audioVars, uiVars, extVars>>

\* ------------------------------------------------------------ construction
InitSession ==
  /\ isConnected = FALSE /\ isListening = FALSE /\ isProcessing = FALSE
  /\ isSpeaking = FALSE /\ isMuted = FALSE
  /\ userTranscript = 0 /\ assistantTranscript = 0
  /\ wsRef = NoRef /\ audioContextRef = NoRef
  /\ mediaStreamRef = NoRef /\ processorRef = NoRef
  /\ startPc = [i \in Sessions |-> "idle"]
  /\ ws = [i \in Sessions |-> "none"]
  /\ stream = [i \in Sessions |-> "none"]
  /\ trackEnabled = [i \in Sessions |-> TRUE]
  /\ playCtx = [i \in Sessions |-> "none"]
  /\ capCtx = [i \in Sessions |-> "none"]
  /\ processor = [i \in Sessions |-> "none"]

InitAudio ==
  /\ playbackQueue = <<>> /\ isPlayingRef = FALSE
  /\ blobs = {} /\ renders = {} /\ arrived = 0
  /\ pushed = 0 /\ lastStarted = 0 /\ flushMark = 0 /\ flushed = -1

\* A filter value: 0 is the empty string (falsy), Absent an undefined key.
Absent == -1
NoFilters == [category |-> Absent, min_price |-> Absent]

\* useState defaults of Products (part_005:155-165).
InitView ==
  /\ mounted = FALSE
  /\ products = <<>> /\ total = 0 /\ loading = TRUE
  /\ selectedCategory = 0 /\ priceRange = [min |-> 0]
  /\ fetches = {} /\ refreshPending = FALSE /\ lastRefresh = "none"

InitVoiceUi ==
  /\ lastProducts = <<>>
  /\ voiceUpdateFlagRef = FALSE
  /\ pendingVoiceUpdateRef = <<>>
  /\ callbackRefs = "null"
  /\ clearTimers = 0
  /\ location = "/"

InitWire == captured = 0 /\ sent = {} /\ lastError = 0

\* useState defaults of part_005:182-183.
InitModals == compareList = <<>> /\ isCompareOpen = FALSE

InitCart == cartItems = <<>> /\ cartEvents = 0 /\ cartAdds = 0

InitCodec == sample = 0 /\ pcm16 = <<>> /\ decoded = <<>>

Init ==
  /\ InitSession /\ InitAudio /\ InitVoiceUi /\ InitView
  /\ InitWire /\ InitModals /\ InitCart /\ InitCodec
  /\ filterEdited = FALSE

\* ----------------------------------------------------------- playback queue
\* A frame is [id, bytes, seq]: id numbers the frames in arrival order,
\* bytes is the byte length of its ArrayBuffer, seq numbers the pushes on
\* the queue (0 while the frame is not pushed yet).

\* new Int16Array(audioData) throws on an odd byte length and
\* createBuffer(1, 0, 24000) throws on an empty one.
DecodeThrows(frame) == frame.bytes % 2 # 0 \/ frame.bytes \div 2 = 0

\* The audio state playNextAudio reads and writes, as one record.
AudioState ==
  [queue |-> playbackQueue, isPlaying |-> isPlayingRef,
   isSpeaking |-> isSpeaking, renders |-> renders, started |-> lastStarted,
   ctxRef |-> audioContextRef, ctxState |-> playCtx]

RECURSIVE playNextAudio(_)
RECURSIVE decodeAndStart(_, _, _)

\* Lines 322-353: convert, build the buffer source, start it; the catch
\* block releases the guard and calls playNextAudio again.
decodeAndStart(s, frame, ctx) ==
  IF DecodeThrows(frame)
  THEN playNextAudio([s EXCEPT !.isPlaying = FALSE])
  ELSE [s EXCEPT !.renders = @ \cup
          {[frame |-> frame, phase |-> "playing", ctx |-> ctx]}]

\* A guard that tests the queue only and not isPlayingRef.
GuardBlocks_QueueOnly(s) == Len(s.queue) = 0

\* The re-entrancy guard of playNextAudio (line 303).
GuardBlocks(s) == s.isPlaying \/ Len(s.queue) = 0

\* pop() in place of shift(): the newest frame is taken.
ShiftQueue_Pop(queue) ==
  [frame |-> queue[Len(queue)], rest |-> SubSeq(queue, 1, Len(queue) - 1)]

\* Line 311, playbackQueueRef.current.shift(): the frame taken and the
\* queue left.
ShiftQueue(queue) == [frame |-> Head(queue), rest |-> Tail(queue)]

playNextAudio(s) ==
  IF GuardBlocks(s)
  THEN IF Len(s.queue) = 0 THEN [s EXCEPT !.isSpeaking = FALSE] ELSE s
  ELSE LET frame == ShiftQueue(s.queue).frame
           s1 == [s EXCEPT !.isPlaying = TRUE,
                           !.queue = ShiftQueue(s.queue).rest,
                           !.started = frame.seq]
       IN IF s.ctxRef = NoRef
          THEN s1                          \* line 315: return, guard kept
          ELSE IF s.ctxState[s.ctxRef] = "suspended"
          THEN [s1 EXCEPT !.renders = @ \cup     \* line 319: await resume()
                  {[frame |-> frame, phase |-> "resuming", ctx |-> s.ctxRef]}]
          ELSE decodeAndStart(s1, frame, s.ctxRef)

\* Write an audio state record back to the variables (the audio context
\* fields are read-only to playNextAudio).
SetAudio(s) ==
  /\ playbackQueue' = s.queue
  /\ isPlayingRef' = s.isPlaying
  /\ isSpeaking' = s.isSpeaking
  /\ renders' = s.renders
  /\ lastStarted' = s.started

\* ------------------------------------------------------------------ cleanup
\* A close() that opens the channel of the ref again.
CloseWs_Reopens(w, i) ==
  IF i # NoRef THEN [w EXCEPT ![i] = "connecting"] ELSE w

\* WebSocket.close(): CONNECTING and OPEN become CLOSING.
CloseWs(w, i) ==
  IF i # NoRef /\ w[i] \in {"connecting", "open"}
  THEN [w EXCEPT ![i] = "closing"] ELSE w

\* cleanup() (lines 412-434) applied after the channel states became w.
cleanup(w) ==
  /\ ws' = CloseWs(w, wsRef)
  /\ wsRef' = NoRef
  /\ stream' = IF mediaStreamRef # NoRef
               THEN [stream EXCEPT ![mediaStreamRef] = "stopped"] ELSE stream
  /\ mediaStreamRef' = NoRef
  /\ processor' = IF processorRef # NoRef
                  THEN [processor EXCEPT ![processorRef] = "disconnected"]
                  ELSE processor
  /\ processorRef' = NoRef
  /\ playCtx' = IF audioContextRef # NoRef
                THEN [playCtx EXCEPT ![audioContextRef] = "closed"] ELSE playCtx
  /\ audioContextRef' = NoRef
  /\ playbackQueue' = <<>>

\* ----------------------------------------------------------------- session
\* startVoice is reached from the Home button (disabled={isConnected}),
\* VoiceController.handleToggle and toggleVoice, each only when isConnected
\* is false.  Invocations are numbered in call order.
StartVoice(i) ==
  /\ ~isConnected
  /\ startPc[i] = "idle"
  /\ \A j \in Sessions : j < i => startPc[j] # "idle"
  /\ startPc' = [startPc EXCEPT ![i] = "awaitMic"]   \* await getUserMedia
  /\ UNCHANGED <<isConnected, isListening, isProcessing, isSpeaking, isMuted,
                 userTranscript, assistantTranscript, wsRef, audioContextRef,
                 mediaStreamRef, processorRef, ws, stream, trackEnabled,
                 playCtx, capCtx, processor, audioVars, uiVars>>
  /\ UNCHANGED extVars

\* getUserMedia resolved: lines 175-184 (the handlers of 186-223 are set on
\* the new socket).  The new AudioContext starts in state st: the browser
\* may create it suspended.
CtxStates == {"running", "suspended"}

MicGranted(i, st) ==
  /\ startPc[i] = "awaitMic"
  /\ startPc' = [startPc EXCEPT ![i] = "done"]
  /\ stream' = [stream EXCEPT ![i] = "live"]
  /\ mediaStreamRef' = i
  /\ playCtx' = [playCtx EXCEPT ![i] = st]
  /\ audioContextRef' = i
  /\ ws' = [ws EXCEPT ![i] = "connecting"]
  /\ wsRef' = i
  /\ UNCHANGED <<isConnected, isListening, isProcessing, isSpeaking, isMuted,
                 userTranscript, assistantTranscript, processorRef,
                 trackEnabled, capCtx, processor, audioVars, uiVars>>
  /\ UNCHANGED extVars

\* A rejection after which the channel is created all the same.
MicDenied_Connects(i) ==
  /\ startPc[i] = "awaitMic"
  /\ startPc' = [startPc EXCEPT ![i] = "denied"]
  /\ ws' = [ws EXCEPT ![i] = "connecting"]
  /\ wsRef' = i
  /\ UNCHANGED <<isConnected, isListening, isProcessing, isSpeaking, isMuted,
                 userTranscript, assistantTranscript, audioContextRef,
                 mediaStreamRef, processorRef, stream, trackEnabled,
                 playCtx, capCtx, processor, audioVars, uiVars, extVars>>

\* getUserMedia rejected: the catch block of lines 225-228; the alert of
\* line 227 is the prompt, shown in position "denied".
MicDenied(i) ==
  /\ startPc[i] = "awaitMic"
  /\ startPc' = [startPc EXCEPT ![i] = "denied"]
  /\ UNCHANGED <<isConnected, isListening, isProcessing, isSpeaking, isMuted,
                 userTranscript, assistantTranscript, wsRef, audioContextRef,
                 mediaStreamRef, processorRef, ws, stream, trackEnabled,
                 playCtx, capCtx, processor, audioVars, uiVars>>
  /\ UNCHANGED extVars

\* ws.onopen (lines 186-193) with startAudioStreaming (lines 271-297).
WsOpen(i) ==
  /\ ws[i] = "connecting"
  /\ ws' = [ws EXCEPT ![i] = "open"]
  /\ isConnected' = TRUE
  /\ isListening' = TRUE
  /\ capCtx' = [capCtx EXCEPT ![i] = "running"]
  /\ processor' = [processor EXCEPT ![i] = "connected"]
  /\ processorRef' = i
  /\ UNCHANGED <<isProcessing, isSpeaking, isMuted, userTranscript,
                 assistantTranscript, wsRef, audioContextRef, mediaStreamRef,
                 startPc, stream, trackEnabled, playCtx, audioVars, uiVars>>
  /\ UNCHANGED extVars

\* ws.onerror (lines 213-216): the transport failed; its close event follows.
WsError(i) ==
  /\ ws[i] \in {"connecting", "open"}
  /\ ws' = [ws EXCEPT ![i] = "failed"]
  /\ isConnected' = FALSE
  /\ UNCHANGED <<isListening, isProcessing, isSpeaking, isMuted,
                 userTranscript, assistantTranscript, wsRef, audioContextRef,
                 mediaStreamRef, processorRef, startPc, stream, trackEnabled,
                 playCtx, capCtx, processor, audioVars, uiVars>>
  /\ UNCHANGED extVars

\* ws.onclose (lines 218-223): remote close of an open socket, or the close
\* event that follows close() or a failure.
WsClose(i) ==
  /\ ws[i] \in {"open", "closing", "failed"}
  /\ isConnected' = FALSE
  /\ isListening' = FALSE
  /\ cleanup([ws EXCEPT ![i] = "closed"])
  /\ UNCHANGED <<isProcessing, isSpeaking, isMuted, userTranscript,
                 assistantTranscript, startPc, trackEnabled, capCtx,
                 isPlayingRef, blobs, renders, arrived, pushed, lastStarted,
                 flushMark, flushed, uiVars>>
  /\ UNCHANGED extVars

\* stopVoice (lines 359-366), reached from handleToggle, handleDisable and
\* toggleVoice, each only when isConnected is true.
StopVoice ==
  /\ isConnected
  /\ cleanup(ws)
  /\ isConnected' = FALSE
  /\ isListening' = FALSE
  /\ isSpeaking' = FALSE
  /\ isProcessing' = FALSE
  /\ isMuted' = FALSE
  /\ UNCHANGED <<userTranscript, assistantTranscript, startPc, trackEnabled,
                 capCtx, isPlayingRef, blobs, renders, arrived, pushed,
                 lastStarted, flushMark, flushed, uiVars>>
  /\ UNCHANGED extVars

\* toggleMute (lines 382-390), reached from the mute button and Ctrl+M, each
\* only when isConnected is true.
ToggleMute ==
  /\ isConnected
  /\ mediaStreamRef # NoRef
  /\ trackEnabled' = [trackEnabled EXCEPT ![mediaStreamRef] = ~@]
  /\ isMuted' = trackEnabled[mediaStreamRef]
  /\ UNCHANGED <<isConnected, isListening, isProcessing, isSpeaking,
                 userTranscript, assistantTranscript, wsRef, audioContextRef,
                 mediaStreamRef, processorRef, startPc, ws, stream, playCtx,
                 capCtx, processor, audioVars, uiVars>>
  /\ UNCHANGED extVars

\* ----------------------------------------------------------- outbound audio
\* A test that only asks for a channel in the ref.
CanSend_AnyChannel(ref, w) == ref # NoRef

\* Line 280: wsRef.current?.readyState === WebSocket.OPEN.
CanSend(ref, w) == ref # NoRef /\ w[ref] = "open"

\* processor.onaudioprocess (lines 279-293) of the processor that
\* invocation i created: the buffer is converted and sent on the channel in
\* wsRef if that channel is open, and is dropped otherwise.  A processor
\* that was disconnected may or may not be called again.
AudioProcess(i) ==
  /\ processor[i] \in {"connected", "disconnected"}
  /\ captured < MaxCaptured
  /\ captured' = captured + 1
  /\ sent' = IF CanSend(wsRef, ws) THEN sent \cup {captured + 1} ELSE sent
  /\ UNCHANGED <<sessionVars, audioVars, uiVars, lastError, modalVars,
                 cartVars, codecVars, filterEdited>>

\* ----------------------------------------------------------- PCM conversion
\* A Float32 sample x is the integer x * SampleDenom; the samples explored
\* are the multiples of 1/16 up to MaxSteps/16 and their neighbours one
\* unit (2^-16) below and above, all exact Float32 values.
SampleDenom == 65536
Samples ==
  {k * (SampleDenom \div 16) + d : k \in -MaxSteps..MaxSteps, d \in {-1, 0, 1}}

NegScale == 32768     \* 0x8000 (line 287)
PosScale == 32767     \* 0x7FFF (line 287)
DecodeScale == 32768  \* 32768.0 (line 326)

\* A sample taken as it comes.
Clamp_None(x) == x

\* Line 286: Math.max(-1, Math.min(1, x)).
Clamp(x) ==
  IF x < -SampleDenom THEN -SampleDenom
  ELSE IF x > SampleDenom THEN SampleDenom ELSE x

\* Line 287, the factor chosen by the sign of s.
Scale(s) == IF s < 0 THEN NegScale ELSE PosScale

\* Line 287, right-hand side: the double s * 0x8000 or s * 0x7FFF, computed
\* without rounding (a 24-bit significand times a 15-bit integer), cut to
\* its integer part toward zero as the store into an Int16Array does first.
\* The product m * k / SampleDenom is taken in two parts to stay within
\* 32-bit integers.
Truncated(s) ==
  LET m == IF s < 0 THEN -s ELSE s
      k == Scale(s)
      t == (m \div SampleDenom) * k + ((m % SampleDenom) * k) \div SampleDenom
  IN IF s < 0 THEN -t ELSE t

\* Line 287, the store into the Int16Array after the cut: the integer is
\* reduced modulo 2^16 into -2^15 .. 2^15 - 1.
ToInt16(v) == ((v + 32768) % 65536) - 32768

\* Lines 286-287 for one sample.
encodeSample(x) == ToInt16(Truncated(Clamp(x)))

\* Line 326 for one sample: int16 / 32768.0, exact in Float32.
decodeSample(v) == (v * SampleDenom) \div DecodeScale

\* One pass of the loop of lines 285-288 on sample x.
EncodeSample(x) ==
  /\ sample' = x
  /\ pcm16' = <<encodeSample(x)>>
  /\ decoded' = <<>>
  /\ UNCHANGED <<sessionVars, audioVars, uiVars, wireVars, modalVars,
                 cartVars, filterEdited>>

\* One pass of the loop of lines 325-327 on the value stored last.
DecodeSample ==
  /\ pcm16 # <<>> /\ decoded = <<>>
  /\ decoded' = <<decodeSample(pcm16[1])>>
  /\ UNCHANGED <<sessionVars, audioVars, uiVars, wireVars, modalVars,
                 cartVars, sample, pcm16, filterEdited>>

\* VoiceController.getState (VoiceController.js:47-54): the mode shown.
getState ==
  IF ~isConnected THEN "idle"
  ELSE IF isMuted THEN "muted"
  ELSE IF isSpeaking THEN "speaking"
  ELSE IF isProcessing THEN "processing"
  ELSE IF isListening THEN "listening"
  ELSE "connected"

\* ------------------------------------------------------------ inbound audio
\* ws.onmessage with a Blob (lines 196-198): the handler suspends at
\* await event.data.arrayBuffer().
WsMessageBlob(i, limit) ==
  /\ ws[i] = "open"
  /\ arrived < limit
  /\ arrived' = arrived + 1
  /\ \E b \in FrameSizes :
       blobs' = blobs \cup {[id |-> arrived + 1, bytes |-> b, seq |-> 0]}
  /\ UNCHANGED <<sessionVars, playbackQueue, isPlayingRef, renders, pushed,
                 lastStarted, flushMark, flushed, uiVars>>
  /\ UNCHANGED extVars

\* The push of line 199.
Enqueue(queue, frame) == Append(queue, frame)

\* arrayBuffer() resolved (lines 199-201): push, setIsSpeaking(true),
\* playNextAudio().  The order in which the promises of different Blobs
\* resolve is not fixed by the platform.
BlobReady(frame) ==
  /\ frame \in blobs
  /\ blobs' = blobs \ {frame}
  /\ pushed' = pushed + 1
  /\ flushed' = -1
  /\ SetAudio(playNextAudio([AudioState EXCEPT
                               !.queue = Enqueue(@, [frame EXCEPT
                                                      !.seq = pushed + 1]),
                               !.isSpeaking = TRUE]))
  /\ UNCHANGED <<isConnected, isListening, isProcessing, isMuted,
                 userTranscript, assistantTranscript, wsRef, audioContextRef,
                 mediaStreamRef, processorRef, startPc, ws, stream,
                 trackEnabled, playCtx, capCtx, processor, arrived,
                 flushMark, uiVars>>
  /\ UNCHANGED extVars

\* audioContext.resume() resolved (line 319): playNextAudio continues with
\* the context and frame it captured.
ResumeDone(r) ==
  /\ r \in renders /\ r.phase = "resuming"
  /\ playCtx[r.ctx] \in {"suspended", "running", "closed"}
  /\ playCtx' = [playCtx EXCEPT ![r.ctx] =
                   IF @ = "suspended" THEN "running" ELSE @]
  /\ SetAudio(decodeAndStart([AudioState EXCEPT
                                !.renders = @ \ {r},
                                !.ctxState = playCtx'],
                             r.frame, r.ctx))
  /\ UNCHANGED <<isConnected, isListening, isProcessing, isMuted,
                 userTranscript, assistantTranscript, wsRef, audioContextRef,
                 mediaStreamRef, processorRef, startPc, ws, stream,
                 trackEnabled, capCtx, processor, blobs, arrived, pushed,
                 flushMark, flushed, uiVars>>
  /\ UNCHANGED extVars

\* resume() rejected because the context was closed meanwhile: the catch
\* block of lines 349-353.
ResumeRejected(r) ==
  /\ r \in renders /\ r.phase = "resuming"
  /\ playCtx[r.ctx] = "closed"
  /\ SetAudio(playNextAudio([AudioState EXCEPT
                               !.renders = @ \ {r},
                               !.isPlaying = FALSE]))
  /\ UNCHANGED <<isConnected, isListening, isProcessing, isMuted,
                 userTranscript, assistantTranscript, wsRef, audioContextRef,
                 mediaStreamRef, processorRef, startPc, ws, stream,
                 trackEnabled, playCtx, capCtx, processor, blobs, arrived,
                 pushed, flushMark, flushed, uiVars>>
  /\ UNCHANGED extVars

\* source.onended (lines 344-347).  A source whose context was closed may
\* or may not report its end.
OnEnded(r) ==
  /\ r \in renders /\ r.phase = "playing"
  /\ SetAudio(playNextAudio([AudioState EXCEPT
                               !.renders = @ \ {r},
                               !.isPlaying = FALSE]))
  /\ UNCHANGED <<isConnected, isListening, isProcessing, isMuted,
                 userTranscript, assistantTranscript, wsRef, audioContextRef,
                 mediaStreamRef, processorRef, startPc, ws, stream,
                 trackEnabled, playCtx, capCtx, processor, blobs, arrived,
                 pushed, flushMark, flushed, uiVars>>
  /\ UNCHANGED extVars

\* ------------------------------------------- structured events (234-266)
\* A flush that leaves the queued frames in place.
FlushQueue_Keeps(queue) == queue

\* The flush of lines 254-255.
FlushQueue(queue) == <<>>

UserTranscript(i, t) ==
  /\ ws[i] = "open"
  /\ userTranscript' = t
  /\ isProcessing' = TRUE
  /\ UNCHANGED <<isConnected, isListening, isSpeaking, isMuted,
                 assistantTranscript, wsRef, audioContextRef, mediaStreamRef,
                 processorRef, startPc, ws, stream, trackEnabled, playCtx,
                 capCtx, processor, audioVars, uiVars>>
  /\ UNCHANGED extVars

\* A handler that records the transcript and leaves isProcessing alone.
AssistantTranscript_KeepsProcessing(i, t) ==
  /\ ws[i] = "open"
  /\ assistantTranscript' = t
  /\ UNCHANGED <<isConnected, isListening, isProcessing, isSpeaking, isMuted,
                 userTranscript, wsRef, audioContextRef, mediaStreamRef,
                 processorRef, startPc, ws, stream, trackEnabled, playCtx,
                 capCtx, processor, audioVars, uiVars>>
  /\ UNCHANGED extVars

AssistantTranscript(i, t) ==
  /\ ws[i] = "open"
  /\ assistantTranscript' = t
  /\ isProcessing' = FALSE
  /\ UNCHANGED <<isConnected, isListening, isSpeaking, isMuted,
                 userTranscript, wsRef, audioContextRef, mediaStreamRef,
                 processorRef, startPc, ws, stream, trackEnabled, playCtx,
                 capCtx, processor, audioVars, uiVars>>
  /\ UNCHANGED extVars

ClearAudioQueue(i) ==
  /\ ws[i] = "open"
  /\ playbackQueue' = FlushQueue(playbackQueue)
  /\ isSpeaking' = FALSE
  /\ flushed' = (IF flushed < 0 THEN 0 ELSE flushed) + Len(playbackQueue)
  /\ flushMark' = arrived
  /\ UNCHANGED <<isConnected, isListening, isProcessing, isMuted,
                 userTranscript, assistantTranscript, wsRef, audioContextRef,
                 mediaStreamRef, processorRef, startPc, ws, stream,
                 trackEnabled, playCtx, capCtx, processor, isPlayingRef,
                 blobs, renders, arrived, pushed, lastStarted, uiVars>>
  /\ UNCHANGED extVars

\* Texts of the error events explored (0 is no text).
ErrorTexts == {3}

\* The texts held in state that the provider hands to the UI (lines 29-30,
\* 477-487).
shownTexts == {userTranscript, assistantTranscript}

\* An error event (lines 258-260): console.error(data.error).
ErrorEvent(i, e) ==
  /\ ws[i] = "open"
  /\ lastError' = e
  /\ UNCHANGED <<sessionVars, audioVars, uiVars, captured, sent, modalVars,
                 cartVars, codecVars, filterEdited>>

\* An event of another type, or a text message that JSON.parse rejects:
\* logged, nothing else (lines 207-209, 262-264).
IgnoredMessage(i) ==
  /\ ws[i] = "open"
  /\ UNCHANGED vars

\* ------------------------------------------------ product search (backend)
\* The catalog behind GET /api/products: product id -> category and price.
Catalog ==
  <<[category |-> 1, price |-> 10],
    [category |-> 1, price |-> 20],
    [category |-> 2, price |-> 20]>>

Categories == {1, 2}
MinPrices  == {20}

RECURSIVE IdsFrom(_, _)
\* The ids k..Len(Catalog) that match the filter, in catalog order.
IdsFrom(k, f) ==
  IF k > Len(Catalog) THEN <<>>
  ELSE (IF /\ (f.category = 0 \/ Catalog[k].category = f.category)
           /\ (f.min = 0 \/ Catalog[k].price >= f.min)
        THEN <<k>> ELSE <<>>) \o IdsFrom(k + 1, f)

\* The response body of a product search with query parameters f.
SearchProducts(f) ==
  LET ids == IdsFrom(1, f) IN [products |-> ids, total |-> Len(ids)]

\* ------------------------------------------------------------ Products view
\* A value is truthy when it is neither undefined, '' nor 0.
Truthy(v) == v > 0

\* The six "if (filters.x) setX(filters.x)" lines (part_005:214-219 and
\* 252-257) on the two modelled keys, as the new [category, priceRange].
ApplyFilters(cat, range, f) ==
  [category |-> IF Truthy(f.category) THEN f.category ELSE cat,
   priceRange |-> IF Truthy(f.min_price) THEN [min |-> f.min_price] ELSE range]

\* Whether applying f gives fetchProducts a new identity: a changed
\* category, or any setPriceRange (it always builds a new object).
FiltersRetrigger(cat, f) ==
  (Truthy(f.category) /\ f.category # cat) \/ Truthy(f.min_price)

\* The query parameters fetchProducts builds (part_005:272-278).
QueryParams == [category |-> selectedCategory, min |-> priceRange.min]

\* The flag test answering "no update in progress" whatever the flag holds.
isVoiceUpdateInProgress_Never == FALSE

\* The flag test of the refresh effect (part_005:315) and of the mount
\* effect (part_005:246), through isVoiceUpdateInProgress (VoiceContext 395).
isVoiceUpdateInProgress == voiceUpdateFlagRef

\* A read that returns the slot's content and leaves it in the slot.
consumePendingVoiceData_Keeps(pending) == [data |-> pending, slot |-> pending]

\* consumePendingVoiceData (VoiceContext.js:403-407): what the call
\* returns and what it leaves in the slot.
consumePendingVoiceData(pending) == [data |-> pending, slot |-> <<>>]

\* The view mounts: first render and its effects, in declaration order -
\* register the callbacks and consume the pending update (202-259), then the
\* refresh effect (312-320) with the fetchProducts of the first render.
Mount ==
  /\ location = "/products" /\ ~mounted
  /\ mounted' = TRUE
  /\ callbackRefs' = "live"
  /\ pendingVoiceUpdateRef' = consumePendingVoiceData(pendingVoiceUpdateRef).slot
  /\ LET pendingData == consumePendingVoiceData(pendingVoiceUpdateRef).data
         apply == pendingData # <<>> /\ isVoiceUpdateInProgress
         skip  == isVoiceUpdateInProgress
         p     == pendingData[1]
         nf    == ApplyFilters(selectedCategory, priceRange, p.filters)
     IN /\ products' = IF apply THEN p.products ELSE products
        /\ total' = IF apply THEN p.total ELSE total
        /\ selectedCategory' = IF apply THEN nf.category ELSE selectedCategory
        /\ priceRange' = IF apply THEN nf.priceRange ELSE priceRange
        /\ refreshPending' = (apply /\ FiltersRetrigger(selectedCategory, p.filters))
        /\ fetches' = IF skip THEN fetches ELSE fetches \cup {QueryParams}
        /\ lastRefresh' = IF skip THEN "skipped" ELSE "issued"
        /\ loading' = IF skip THEN (IF apply THEN FALSE ELSE loading) ELSE TRUE
  /\ UNCHANGED <<sessionVars, audioVars, lastProducts,
                 voiceUpdateFlagRef, clearTimers, location>>
  /\ UNCHANGED sideVars
  /\ filterEdited' = FALSE

\* The view unmounts: its state is discarded, responses to its fetches and
\* the callbacks it registered no longer reach a view.
Unmount ==
  /\ location # "/products" /\ mounted
  /\ mounted' = FALSE
  /\ callbackRefs' = "stale"
  /\ products' = <<>> /\ total' = 0 /\ loading' = TRUE
  /\ selectedCategory' = 0 /\ priceRange' = [min |-> 0]
  /\ fetches' = {} /\ refreshPending' = FALSE /\ lastRefresh' = "none"
  /\ UNCHANGED <<sessionVars, audioVars, lastProducts,
                 voiceUpdateFlagRef, pendingVoiceUpdateRef, clearTimers,
                 location>>
  /\ compareList' = <<>> /\ isCompareOpen' = FALSE
  /\ filterEdited' = FALSE
  /\ UNCHANGED <<wireVars, cartVars, codecVars>>

\* The refresh effect (part_005:312-320) after fetchProducts changed; it
\* runs fetchProducts up to its await (267-280) unless the flag is set.
RefreshEffect ==
  /\ mounted /\ refreshPending
  /\ refreshPending' = FALSE
  /\ IF isVoiceUpdateInProgress
     THEN /\ lastRefresh' = "skipped"
          /\ UNCHANGED <<fetches, loading>>
     ELSE /\ Cardinality(fetches \cup {QueryParams}) <= MaxFetches
          /\ lastRefresh' = "issued"
          /\ fetches' = fetches \cup {QueryParams}
          /\ loading' = TRUE
  /\ UNCHANGED <<sessionVars, audioVars, voiceUiVars, mounted, products,
                 total, selectedCategory, priceRange>>
  /\ UNCHANGED sideVars
  /\ filterEdited' = (filterEdited /\ isVoiceUpdateInProgress)

\* A fetch answers with success (part_005:283-285, 293).
FetchDone(f) ==
  /\ f \in fetches
  /\ fetches' = fetches \ {f}
  /\ products' = SearchProducts(f).products
  /\ total' = SearchProducts(f).total
  /\ loading' = FALSE
  /\ UNCHANGED <<sessionVars, audioVars, voiceUiVars, mounted,
                 selectedCategory, priceRange, refreshPending, lastRefresh>>
  /\ UNCHANGED extVars

\* A fetch fails or answers success: false (part_005:286-293); the error
\* text it sets is shown in place of the list and is not modelled.
FetchFail(f) ==
  /\ f \in fetches
  /\ fetches' = fetches \ {f}
  /\ loading' = FALSE
  /\ UNCHANGED <<sessionVars, audioVars, voiceUiVars, mounted, products,
                 total, selectedCategory, priceRange, refreshPending,
                 lastRefresh>>
  /\ UNCHANGED extVars

\* The category checkbox (part_005:466): toggles the category.
UserSetCategory(c) ==
  /\ mounted
  /\ selectedCategory' = IF selectedCategory = c THEN 0 ELSE c
  /\ refreshPending' = TRUE
  /\ UNCHANGED <<sessionVars, audioVars, voiceUiVars, mounted, products,
                 total, loading, priceRange, fetches, lastRefresh>>
  /\ UNCHANGED sideVars
  /\ filterEdited' = TRUE

\* The minimum price input (part_005:500).
UserSetMinPrice(m) ==
  /\ mounted
  /\ priceRange' = [min |-> m]
  /\ refreshPending' = TRUE
  /\ UNCHANGED <<sessionVars, audioVars, voiceUiVars, mounted, products,
                 total, loading, selectedCategory, fetches, lastRefresh>>
  /\ UNCHANGED sideVars
  /\ filterEdited' = TRUE

\* A Navbar link or the browser's history buttons.
UserNavigate(path) ==
  /\ location # path
  /\ location' = path
  /\ UNCHANGED <<sessionVars, audioVars, lastProducts,
                 voiceUpdateFlagRef, pendingVoiceUpdateRef, callbackRefs,
                 clearTimers, viewVars>>
  /\ UNCHANGED extVars

\* ------------------------------------------------ handleUIUpdate (86-159)
Paths == {"/", "/products"}
NoPath == ""            \* navigate_to absent

\* navigate_to and data of the SHOW_PRODUCTS events explored; has = FALSE
\* when data.products is absent.  Each event carries its own product list,
\* so the list tells which event was handled last.
ProductEvents ==
  {[nav |-> "/products", has |-> TRUE, products |-> <<1, 2>>, total |-> 2],
   [nav |-> NoPath, has |-> TRUE, products |-> <<3>>, total |-> 1],
   [nav |-> "/products", has |-> FALSE, products |-> <<>>, total |-> 0],
   [nav |-> NoPath, has |-> FALSE, products |-> <<>>, total |-> 0]}

\* filters of a SHOW_PRODUCTS event.
VoiceFilters ==
  {NoFilters,
   [category |-> 1, min_price |-> Absent],
   [category |-> 0, min_price |-> 20]}

\* Line 104: the flag is raised by every product update.
RaiseFlag(flag) == TRUE

\* A store that adds the payload behind what the slot holds.
StorePending_Appends(pending, nav, data, f) ==
  IF nav # NoPath
  THEN Append(pending,
              [products |-> data.products, total |-> data.total, filters |-> f])
  ELSE pending

\* Lines 108-114: the pending slot after an update.
StorePending(pending, nav, data, f) ==
  IF nav # NoPath
  THEN <<[products |-> data.products, total |-> data.total, filters |-> f]>>
  ELSE pending

\* A timer callback that leaves the flag as it finds it.
ClearFlag_Keeps(flag) == flag

\* Lines 125-127: the timer callback.
ClearFlag(flag) == FALSE

\* ui_update with action SHOW_PRODUCTS, on the socket of invocation i.
ShowProducts(i, data, f) ==
  /\ ws[i] = "open"
  /\ location' = IF data.nav # NoPath THEN data.nav ELSE location
  /\ IF data.has
     THEN /\ clearTimers < MaxTimers
          /\ lastProducts' = data.products
          /\ voiceUpdateFlagRef' = RaiseFlag(voiceUpdateFlagRef)
          /\ pendingVoiceUpdateRef' = StorePending(pendingVoiceUpdateRef, data.nav, data, f)
          /\ clearTimers' = clearTimers + 1
          /\ IF callbackRefs = "live"
             THEN LET nf == ApplyFilters(selectedCategory, priceRange, f)
                  IN /\ products' = data.products
                     /\ total' = data.total
                     /\ loading' = FALSE
                     /\ selectedCategory' = nf.category
                     /\ priceRange' = nf.priceRange
                     /\ refreshPending' =
                          (refreshPending \/ FiltersRetrigger(selectedCategory, f))
             ELSE UNCHANGED <<products, total, loading, selectedCategory,
                              priceRange, refreshPending>>
     ELSE UNCHANGED <<lastProducts, voiceUpdateFlagRef,
                      pendingVoiceUpdateRef, clearTimers, products, total,
                      loading, selectedCategory, priceRange, refreshPending>>
  /\ UNCHANGED <<sessionVars, audioVars, callbackRefs, mounted, fetches,
                 lastRefresh>>
  /\ UNCHANGED sideVars
  /\ filterEdited' = (filterEdited /\ ~(data.has /\ callbackRefs = "live"))

\* ui_update with action NAVIGATE (lines 92-94, 152-154).
VoiceNavigate(i, nav) ==
  /\ ws[i] = "open"
  /\ nav # NoPath
  /\ location' = nav
  /\ UNCHANGED <<sessionVars, audioVars, lastProducts,
                 voiceUpdateFlagRef, pendingVoiceUpdateRef, callbackRefs,
                 clearTimers, viewVars>>
  /\ UNCHANGED extVars

\* The setTimeout callback of lines 125-127.
TimerFire ==
  /\ clearTimers > 0
  /\ clearTimers' = clearTimers - 1
  /\ voiceUpdateFlagRef' = ClearFlag(voiceUpdateFlagRef)
  /\ UNCHANGED <<sessionVars, audioVars, lastProducts,
                 pendingVoiceUpdateRef, callbackRefs, location, viewVars>>
  /\ UNCHANGED extVars

\* ------------------------------------------- comparison, cart, other actions
\* Product ids used in comparison and cart events.
ProductIds == {1, 2}

\* data.products of the COMPARE_PRODUCTS events explored.
CompareLists == {<<1>>, <<1, 2>>}

\* navigate_to of an event: a path or absent.
NavTargets == Paths \cup {NoPath}

\* CompareModal renders only if open with at least two products
\* (CompareModal.js:13).
CompareModalShown == mounted /\ isCompareOpen /\ Len(compareList) >= 2

\* SelectSeq without a test operator: list without the entries equal to p.
RECURSIVE Without(_, _)
Without(list, p) ==
  IF list = <<>> THEN <<>>
  ELSE IF Head(list) = p THEN Without(Tail(list), p)
  ELSE <<Head(list)>> \o Without(Tail(list), p)

\* handleCompareToggle (part_005:339-351).
handleCompareToggle(list, p) ==
  IF \E k \in 1..Len(list) : list[k] = p THEN Without(list, p)
  ELSE IF Len(list) >= 4 THEN list
  ELSE Append(list, p)

\* An add that appends a new entry whether or not the product is there.
addToCart_Appends(items, p) == Append(items, [id |-> p, quantity |-> 1])

\* CartContext.addToCart (CartContext.js:23-37).
addToCart(items, p) ==
  IF \E k \in 1..Len(items) : items[k].id = p
  THEN [k \in 1..Len(items) |->
          IF items[k].id = p
          THEN [items[k] EXCEPT !.quantity = @ + 1] ELSE items[k]]
  ELSE Append(items, [id |-> p, quantity |-> 1])

\* Product ids of the cart operations explored.
CartProducts == 1..3

\* isInCart (CartContext.js:73-75).
isInCart(items, p) == \E k \in 1..Len(items) : items[k].id = p

RECURSIVE removeFromCart(_, _)
\* removeFromCart (CartContext.js:42-44): the entries whose id is not p.
removeFromCart(items, p) ==
  IF items = <<>> THEN <<>>
  ELSE IF Head(items).id = p THEN removeFromCart(Tail(items), p)
  ELSE <<Head(items)>> \o removeFromCart(Tail(items), p)

\* updateQuantity (CartContext.js:49-61).
updateQuantity(items, p, q) ==
  IF q <= 0 THEN removeFromCart(items, p)
  ELSE IF items = <<>> THEN <<>>
  ELSE [k \in 1..Len(items) |->
          IF items[k].id = p
          THEN [items[k] EXCEPT !.quantity = q] ELSE items[k]]

\* clearCart (CartContext.js:66-68).
clearCart(items) == <<>>

\* ui_update with action COMPARE_PRODUCTS (lines 92-94, 138-143) and the
\* compare callback of the view (part_005:230-234).  A callback left by an
\* unmounted view sets state of a component that is gone.
CompareProducts(i, list, nav) ==
  /\ ws[i] = "open"
  /\ location' = IF nav # NoPath THEN nav ELSE location
  /\ IF callbackRefs = "live"
     THEN compareList' = list /\ isCompareOpen' = TRUE
     ELSE UNCHANGED modalVars
  /\ UNCHANGED <<sessionVars, audioVars, lastProducts, voiceUpdateFlagRef,
                 pendingVoiceUpdateRef, callbackRefs, clearTimers, viewVars,
                 wireVars, cartVars, codecVars, filterEdited>>

\* ui_update with action ADD_TO_CART carrying a product (lines 92-94,
\* 145-150) and the cart callback of the view (part_005:236-240), which
\* calls the cart provider's addToCart also after the view unmounted.
AddToCartEvent(i, p, nav) ==
  /\ ws[i] = "open"
  /\ cartEvents < MaxCartEvents
  /\ cartEvents' = cartEvents + 1
  /\ location' = IF nav # NoPath THEN nav ELSE location
  /\ IF callbackRefs # "null"
     THEN cartItems' = addToCart(cartItems, p) /\ cartAdds' = cartAdds + 1
     ELSE UNCHANGED <<cartItems, cartAdds>>
  /\ UNCHANGED <<sessionVars, audioVars, lastProducts, voiceUpdateFlagRef,
                 pendingVoiceUpdateRef, callbackRefs, clearTimers, viewVars,
                 wireVars, modalVars, codecVars, filterEdited>>

\* ui_update with an action tag that no case matches (lines 92-94,
\* 156-157).
UnknownAction(i, nav) ==
  /\ ws[i] = "open"
  /\ location' = IF nav # NoPath THEN nav ELSE location
  /\ UNCHANGED <<sessionVars, audioVars, lastProducts, voiceUpdateFlagRef,
                 pendingVoiceUpdateRef, callbackRefs, clearTimers, viewVars,
                 extVars>>

\* The compare checkbox of a product card (part_005:617).
UserCompareToggle(p) ==
  /\ mounted
  /\ compareList' = handleCompareToggle(compareList, p)
  /\ UNCHANGED <<sessionVars, audioVars, uiVars, wireVars, isCompareOpen,
                 cartVars, codecVars, filterEdited>>

\* The Compare buttons (part_005:391-397, 421-423).
UserOpenCompare ==
  /\ mounted /\ Len(compareList) >= 2
  /\ isCompareOpen' = TRUE
  /\ UNCHANGED <<sessionVars, audioVars, uiVars, wireVars, compareList,
                 cartVars, codecVars, filterEdited>>

\* onClose of the comparison modal (part_005:640).
UserCloseCompare ==
  /\ CompareModalShown
  /\ isCompareOpen' = FALSE
  /\ UNCHANGED <<sessionVars, audioVars, uiVars, wireVars, compareList,
                 cartVars, codecVars, filterEdited>>

\* A call of the cart provider's addToCart from the product card or the
\* product modal (part_005:352-355); the quantity is capped for exploration.
AddToCartCall(p) ==
  /\ \A k \in 1..Len(cartItems) :
       cartItems[k].id = p => cartItems[k].quantity < MaxQuantity
  /\ cartItems' = addToCart(cartItems, p)
  /\ UNCHANGED <<sessionVars, audioVars, uiVars, wireVars, modalVars,
                 cartEvents, cartAdds, codecVars, filterEdited>>

\* A call of removeFromCart (Cart.js:114).
RemoveFromCartCall(p) ==
  /\ cartItems' = removeFromCart(cartItems, p)
  /\ UNCHANGED <<sessionVars, audioVars, uiVars, wireVars, modalVars,
                 cartEvents, cartAdds, codecVars, filterEdited>>

\* A call of updateQuantity with an integer quantity; the cart page passes
\* the entry's quantity minus or plus one (Cart.js:91, 98).
UpdateQuantityCall(p, q) ==
  /\ cartItems' = updateQuantity(cartItems, p, q)
  /\ UNCHANGED <<sessionVars, audioVars, uiVars, wireVars, modalVars,
                 cartEvents, cartAdds, codecVars, filterEdited>>

\* A call of clearCart (Cart.js:125, Checkout.js:38).
ClearCartCall ==
  /\ cartItems' = clearCart(cartItems)
  /\ UNCHANGED <<sessionVars, audioVars, uiVars, wireVars, modalVars,
                 cartEvents, cartAdds, codecVars, filterEdited>>

\* ------------------------------------------------------------ specification
\* The session life cycle: start, stop, mute and the transport events, for
\* every interleaving of up to MaxSessions startVoice invocations.
\* handleUIUpdate touches none of the session variables; the UI
\* synchronisation layer is explored under SpecUI.
Next ==
  \/ \E i \in Sessions : StartVoice(i)
  \/ \E i \in Sessions, st \in CtxStates : MicGranted(i, st)
  \/ \E i \in Sessions : MicDenied(i)
  \/ \E i \in Sessions : WsOpen(i)
  \/ \E i \in Sessions : WsError(i)
  \/ \E i \in Sessions : WsClose(i)
  \/ StopVoice
  \/ ToggleMute

Spec == Init /\ [][Next]_vars

\* One session with its structured events and a first audio frame.
NextEvents ==
  \/ StartVoice(1)
  \/ \E st \in CtxStates : MicGranted(1, st)
  \/ WsOpen(1)
  \/ WsError(1)
  \/ WsClose(1)
  \/ StopVoice
  \/ ToggleMute
  \/ WsMessageBlob(1, 1)
  \/ \E f \in blobs : BlobReady(f)
  \/ \E r \in renders : ResumeDone(r)
  \/ \E r \in renders : ResumeRejected(r)
  \/ \E r \in renders : OnEnded(r)
  \/ \E t \in Transcripts : UserTranscript(1, t)
  \/ \E t \in Transcripts : AssistantTranscript(1, t)
  \/ ClearAudioQueue(1)
  \/ \E e \in ErrorTexts : ErrorEvent(1, e)
  \/ IgnoredMessage(1)

SpecEvents == Init /\ [][NextEvents]_vars

\* The playback queue within one session: frames, renders and the flush.
NextQueue ==
  \/ StartVoice(1)
  \/ \E st \in CtxStates : MicGranted(1, st)
  \/ WsOpen(1)
  \/ WsClose(1)
  \/ StopVoice
  \/ WsMessageBlob(1, MaxFrames)
  \/ \E f \in blobs : BlobReady(f)
  \/ \E r \in renders : ResumeDone(r)
  \/ \E r \in renders : ResumeRejected(r)
  \/ \E r \in renders : OnEnded(r)
  \/ ClearAudioQueue(1)

SpecQueue == Init /\ [][NextQueue]_vars

\* The audio path across stop and restart.
NextAudio ==
  \/ \E i \in Sessions : StartVoice(i)
  \/ \E i \in Sessions, st \in CtxStates : MicGranted(i, st)
  \/ \E i \in Sessions : WsOpen(i)
  \/ \E i \in Sessions : WsClose(i)
  \/ StopVoice
  \/ \E i \in Sessions : WsMessageBlob(i, RestartFrames)
  \/ \E f \in blobs : BlobReady(f)
  \/ \E r \in renders : ResumeDone(r)
  \/ \E r \in renders : ResumeRejected(r)
  \/ \E r \in renders : OnEnded(r)

SpecAudio == Init /\ [][NextAudio]_vars

\* The UI synchronisation layer, fed by the socket of one session.
NextUI ==
  \/ StartVoice(1)
  \/ MicGranted(1, "running")
  \/ WsOpen(1)
  \/ \E data \in ProductEvents, f \in VoiceFilters : ShowProducts(1, data, f)
  \/ \E nav \in Paths : VoiceNavigate(1, nav)
  \/ TimerFire
  \/ Mount
  \/ Unmount
  \/ RefreshEffect
  \/ \E f \in fetches : FetchDone(f)
  \/ \E f \in fetches : FetchFail(f)
  \/ \E c \in Categories : UserSetCategory(c)
  \/ \E m \in MinPrices \cup {0} : UserSetMinPrice(m)
  \/ \E path \in Paths : UserNavigate(path)

SpecUI == Init /\ [][NextUI]_vars

\* The session life cycle with the microphone capture callback.
NextCapture ==
  \/ Next
  \/ \E i \in Sessions : AudioProcess(i)

SpecCapture == Init /\ [][NextCapture]_vars

\* Comparison, cart and unrecognised actions, fed by the socket of one
\* session, with the view mounting and unmounting.
NextModals ==
  \/ StartVoice(1)
  \/ MicGranted(1, "running")
  \/ WsOpen(1)
  \/ Mount
  \/ Unmount
  \/ \E path \in Paths : UserNavigate(path)
  \/ \E list \in CompareLists, nav \in NavTargets : CompareProducts(1, list, nav)
  \/ \E p \in ProductIds, nav \in NavTargets : AddToCartEvent(1, p, nav)
  \/ \E nav \in NavTargets : UnknownAction(1, nav)
  \/ \E p \in ProductIds : UserCompareToggle(p)
  \/ UserOpenCompare
  \/ UserCloseCompare

SpecModals == Init /\ [][NextModals]_vars

\* The cart provider under every sequence of calls of its four operations.
NextCart ==
  \/ \E p \in CartProducts : AddToCartCall(p)
  \/ \E p \in CartProducts : RemoveFromCartCall(p)
  \/ \E p \in CartProducts, q \in -1..MaxQuantity : UpdateQuantityCall(p, q)
  \/ ClearCartCall

SpecCart == Init /\ [][NextCart]_vars

\* The two PCM conversions applied to every sample explored.
NextCodec ==
  \/ \E x \in Samples : EncodeSample(x)
  \/ DecodeSample

SpecCodec == Init /\ [][NextCodec]_vars

\* ------------------------------------------------------------------ claims
\* A step of the refresh effect that a filter change made due.
RefreshStep == mounted /\ refreshPending /\ mounted' /\ ~refreshPending'

\* A step in which the response of a fetch reaches the mounted view.
FetchAnswerStep == mounted' /\ fetches' # fetches /\ fetches' \subseteq fetches

\* A step in which the view mounts.
MountStep == ~mounted /\ mounted'

\* C1: when the refresh effect runs because a filter changed while the
\* in-flight flag is set, it issues no fetch and leaves the view's product
\* list and total as they are.
C1_RefreshSkippedWhileFlag ==
  [][(RefreshStep /\ voiceUpdateFlagRef)
       => (fetches' = fetches /\ products' = products /\ total' = total)]_vars

\* C1 witness: a voice update showed <<3>>, the user then chose category 1,
\* the refresh effect ran and was skipped, and the list is still <<3>>.
C1_Witness ==
  /\ mounted /\ voiceUpdateFlagRef /\ lastRefresh = "skipped"
  /\ ~refreshPending /\ fetches = {}
  /\ selectedCategory = 1 /\ products = <<3>> /\ total = 1

\* C2: while the in-flight flag is set, no response of an HTTP fetch changes
\* the view's product list or total.
C2_NoRefreshWriteWhileFlag ==
  [][(FetchAnswerStep /\ voiceUpdateFlagRef)
       => (products' = products /\ total' = total)]_vars

\* C3: a pending update stored before the view ever mounted is what the
\* view shows once it has mounted - list, total and filters - and the
\* mount-time refresh issues no fetch, however late the mount comes.
C3_PendingAppliedOnMount ==
  [][(MountStep /\ callbackRefs = "null" /\ pendingVoiceUpdateRef # <<>>)
       => LET p == pendingVoiceUpdateRef[1]
              nf == ApplyFilters(0, [min |-> 0], p.filters)
          IN /\ products' = p.products
             /\ total' = p.total
             /\ selectedCategory' = nf.category
             /\ priceRange' = nf.priceRange
             /\ fetches' = {}]_vars

\* C4: the in-flight flag is set for as long as the clear timer of some
\* product update has not run yet.
C4_FlagHeldUntilOwnTimer == clearTimers > 0 => voiceUpdateFlagRef

\* The update of the scenario: navigate_to /products, products <<1, 2>>,
\* total 2.
ScenarioUpdate ==
  [nav |-> "/products", has |-> TRUE, products |-> <<1, 2>>, total |-> 2]

\* C5: handling the scenario's update, whatever filters it carries, makes
\* the shared list <<1, 2>>, raises the flag, stores the payload as pending
\* update and routes to /products; a view whose callbacks are registered
\* shows list <<1, 2>> and total 2; and when the last outstanding clear
\* timer has run the flag is down.
C5_ShowProductsScenario ==
  [][/\ (\E f \in VoiceFilters : ShowProducts(1, ScenarioUpdate, f))
          => /\ lastProducts' = <<1, 2>>
             /\ voiceUpdateFlagRef'
             /\ location' = "/products"
             /\ Len(pendingVoiceUpdateRef') = 1
             /\ pendingVoiceUpdateRef'[1].products = <<1, 2>>
             /\ pendingVoiceUpdateRef'[1].total = 2
             /\ (callbackRefs = "live" => (products' = <<1, 2>> /\ total' = 2))
     /\ (TimerFire /\ clearTimers' = 0) => ~voiceUpdateFlagRef']_vars

\* C5 witness: the update was handled while the view was mounted.
C5_Witness ==
  /\ mounted /\ voiceUpdateFlagRef /\ clearTimers = 1
  /\ lastProducts = <<1, 2>> /\ products = <<1, 2>> /\ total = 2
  /\ pendingVoiceUpdateRef # <<>>

\* C6: no frame that arrived before the clear_audio_queue handled last is in
\* the playback queue.
C6_NoEarlierFrameAfterFlush ==
  \A k \in 1..Len(playbackQueue) : playbackQueue[k].id > flushMark

\* C7: frames start rendering in the order they were pushed: the queue holds
\* its frames in push order, and every queued frame was pushed after every
\* frame that has started.
C7_RenderInEnqueueOrder ==
  /\ \A k \in 1..Len(playbackQueue) : playbackQueue[k].seq > lastStarted
  /\ \A j, k \in 1..Len(playbackQueue) :
       j < k => playbackQueue[j].seq < playbackQueue[k].seq
  /\ \A r \in renders : r.frame.seq <= lastStarted

\* C7 witness: the second frame pushed is rendering and the third waits.
C7_Witness ==
  /\ \E r \in renders : r.frame.seq = 2 /\ r.phase = "playing"
  /\ Len(playbackQueue) = 1 /\ playbackQueue[1].seq = 3

\* C8: at most one activation of playNextAudio is past the guard, and a
\* frame pushed while one is in progress starts no render and stays queued.
C8_SingleRender ==
  /\ [](Cardinality(renders) <= 1 /\ (renders # {} => isPlayingRef))
  /\ [][(renders # {} /\ pushed' = pushed + 1)
          => /\ renders' = renders
             /\ lastStarted' = lastStarted
             /\ Len(playbackQueue') = Len(playbackQueue) + 1]_vars

\* C8 witness: in a session started after an earlier one, a render is in
\* progress and a frame pushed meanwhile waits in the queue.
C8_Witness ==
  /\ startPc[2] = "done" /\ ws[2] = "open"
  /\ \E r \in renders : r.ctx = 2
  /\ playbackQueue # <<>>

\* C9: from a clear_audio_queue until the next push the queue is empty and
\* isSpeaking is false, and no frame starts rendering in between.
C9_FlushStopsPlayback ==
  /\ [](flushed >= 0 => (playbackQueue = <<>> /\ ~isSpeaking))
  /\ [][lastStarted' # lastStarted => flushed' < 0]_vars

\* C9 witness: clear_audio_queue dropped three queued frames while the
\* frame pushed first is rendering.
C9_Witness ==
  /\ flushed = 3 /\ playbackQueue = <<>> /\ ~isSpeaking
  /\ \E r \in renders : r.frame.seq = 1 /\ r.phase = "playing"

\* C10: at most one channel is opening or open and at most one microphone
\* stream is acquired.
C10_SingleSession ==
  /\ Cardinality({i \in Sessions : ws[i] \in {"connecting", "open"}}) <= 1
  /\ Cardinality({i \in Sessions : stream[i] = "live"}) <= 1

\* Invocations of startVoice that are in flight: waiting for the microphone
\* or for their channel to open.
StartsInFlight ==
  {i \in Sessions : startPc[i] = "awaitMic" \/ ws[i] = "connecting"}

\* C11: a toggle made while a start is in flight begins no second start:
\* at most one invocation of startVoice is in flight.
C11_ToggleStartsOnce == Cardinality(StartsInFlight) <= 1

\* No session is live or being started, and every channel that failed has
\* had its close event.
Disconnected ==
  /\ ~isConnected
  /\ StartsInFlight = {}
  /\ \A i \in Sessions : ws[i] \notin {"open", "failed"}

\* Everything invocation i acquired is released.
Released(i) ==
  /\ ws[i] \in {"none", "closing", "closed", "failed"}
  /\ stream[i] # "live"
  /\ processor[i] # "connected"
  /\ playCtx[i] \in {"none", "closed"}
  /\ capCtx[i] \in {"none", "closed"}

\* C12: once the session is disconnected after a stop or a closure, every
\* channel is closed, every microphone stream stopped, every capture
\* processor disconnected, every audio context closed and the playback queue
\* empty.
C12_ReleasedWhenDisconnected ==
  Disconnected => (playbackQueue = <<>> /\ \A i \in Sessions : Released(i))

\* Channel states after an error, a close() or a close event.
Ended == {"failed", "closing", "closed"}

sessionView ==
  <<isConnected, isListening, isProcessing, isSpeaking,
    userTranscript, assistantTranscript, playbackQueue>>

\* C14: while the session is disconnected, an audio frame whose delivery
\* completes late, after the stop or the closure, changes none of the
\* flags, the transcripts or the playback queue.
C14_LateFrameIgnored ==
  [][(Disconnected /\ \E f \in blobs : BlobReady(f))
       => sessionView' = sessionView]_vars

\* C15: while a channel is connecting and none is open, the mode shown is
\* not the disconnected one.
C15_ConnectingObservable ==
  ((\E i \in Sessions : ws[i] = "connecting")
     /\ (\A i \in Sessions : ws[i] # "open"))
    => getState # "idle"

\* C16: right after a channel opens the mode shown is listening, whatever
\* the earlier sessions left behind.
C16_OpenShowsListening ==
  [][(\E i \in Sessions : ws[i] = "connecting" /\ ws'[i] = "open")
       => getState' = "listening"]_vars

\* C17: in a connected session, handling user_transcript sets the user
\* transcript to the event's and makes the mode processing, or muted when
\* muted.
C17_UserTranscriptProcessing ==
  [][\A t \in Transcripts :
       (isConnected /\ UserTranscript(1, t))
         => /\ userTranscript' = t
            /\ getState' = IF isMuted THEN "muted" ELSE "processing"]_vars

\* C18: handling assistant_transcript while connected, unmuted and
\* processing ends processing: the mode becomes speaking if frames are
\* being played (isSpeaking) and listening otherwise; from the mode
\* processing it becomes listening.
C18_AssistantTranscriptLeavesProcessing ==
  [][\A t \in Transcripts :
       (isConnected /\ isProcessing /\ ~isMuted /\ AssistantTranscript(1, t))
         => /\ ~isProcessing'
            /\ assistantTranscript' = t
            /\ getState' = IF isSpeaking THEN "speaking" ELSE "listening"
            /\ (getState = "processing" => getState' = "listening")]_vars

\* C18 witness: the assistant transcript was handled after the first frame
\* was pushed; processing is over and the mode is speaking.
C18_Witness ==
  /\ isConnected /\ ~isMuted /\ ~isProcessing
  /\ userTranscript # 0 /\ assistantTranscript # 0
  /\ pushed = 1 /\ getState = "speaking"

\* C19: handling clear_audio_queue in the mode speaking makes the mode
\* listening and empties the playback queue.
C19_ClearQueueToListening ==
  [][(getState = "speaking" /\ ClearAudioQueue(1))
       => (getState' = "listening" /\ playbackQueue' = <<>>)]_vars

\* C20: a mute toggle inverts the muted flag, so that two toggles restore
\* it, flips the enabled state of the current microphone track, and leaves
\* the other flags, the transcripts, the channels and the playback queue
\* unchanged.
C20_MuteToggleFrame ==
  [][ToggleMute
       => /\ isMuted' = ~isMuted
          /\ trackEnabled'[mediaStreamRef] = ~trackEnabled[mediaStreamRef]
          /\ UNCHANGED <<sessionView, ws, wsRef, stream>>]_vars

\* C21: every failure path of playNextAudio releases the re-entrancy guard:
\* the guard is held only while an activation is waiting for resume() or
\* rendering a frame.
C21_GuardReleasedOnFailure == isPlayingRef => renders # {}

\* C22: a buffer is passed to send only in the step that captures it and
\* only while the channel is open; a buffer captured while the channel is
\* not open is never sent.
C22_SendOnlyWhenOpen ==
  /\ [][sent' # sent
          => /\ wsRef # NoRef /\ ws[wsRef] = "open"
             /\ captured' = captured + 1
             /\ sent' = sent \cup {captured'}]_vars
  /\ [][(captured' = captured + 1 /\ (wsRef = NoRef \/ ws[wsRef] # "open"))
          => sent' = sent]_vars

\* C22 witness: the first buffer was captured while the channel was not
\* open and dropped, the second was sent on the open channel.
C22_Witness == captured = 2 /\ sent = {2} /\ isConnected

\* C23: a read of the pending update returns what the slot holds and
\* empties the slot, so a second read with no store in between returns
\* null; the mount effect's read leaves the slot empty.
C23_PendingReadOnce ==
  /\ [](LET first == consumePendingVoiceData(pendingVoiceUpdateRef)
            second == consumePendingVoiceData(first.slot)
        IN /\ first.data = pendingVoiceUpdateRef
           /\ first.slot = <<>>
           /\ second.data = <<>>)
  /\ [][MountStep => pendingVoiceUpdateRef' = <<>>]_vars

\* C23 witness: a navigation-carrying update is stored and the view, not
\* yet mounted, is about to read it.
C23_Witness ==
  /\ ~mounted /\ location = "/products"
  /\ pendingVoiceUpdateRef # <<>> /\ pendingVoiceUpdateRef[1].total = 2

\* C24: the slot never holds more than one pending update, and a
\* navigation-carrying product update leaves in it exactly its own
\* products, total and filters, whatever the slot held, so that the next
\* read returns that payload.
C24_SinglePending ==
  /\ [](Len(pendingVoiceUpdateRef) <= 1)
  /\ [][\A f \in VoiceFilters :
          ShowProducts(1, ScenarioUpdate, f)
            => LET payload == [products |-> <<1, 2>>, total |-> 2,
                               filters |-> f]
               IN /\ pendingVoiceUpdateRef' = <<payload>>
                  /\ consumePendingVoiceData(pendingVoiceUpdateRef').data
                       = <<payload>>]_vars

\* C24 witness: two product updates were handled before the view ever
\* mounted, and the slot holds the one payload of the later update.
C24_Witness ==
  /\ callbackRefs = "null" /\ clearTimers = 2
  /\ lastProducts = <<1, 2>>
  /\ Len(pendingVoiceUpdateRef) = 1
  /\ pendingVoiceUpdateRef[1].filters = [category |-> 0, min_price |-> 20]

\* C25: when a product update's filters reach the mounted view, every
\* filter key the event carries takes the event's value and every key it
\* does not carry keeps its value.
C25_FilterMerge ==
  [][\A data \in ProductEvents, f \in VoiceFilters :
       (data.has /\ callbackRefs = "live" /\ ShowProducts(1, data, f))
         => /\ selectedCategory' =
                 IF f.category # Absent THEN f.category ELSE selectedCategory
            /\ priceRange' =
                 IF f.min_price # Absent THEN [min |-> f.min_price]
                 ELSE priceRange]_vars

\* C26: a COMPARE_PRODUCTS event with fewer than two products changes
\* neither the comparison list nor the comparison-open flag.
C26_CompareBelowMinimumNoOp ==
  [][\A list \in CompareLists, nav \in NavTargets :
       (Len(list) < 2 /\ CompareProducts(1, list, nav))
         => UNCHANGED <<compareList, isCompareOpen>>]_vars

\* C27: every ADD_TO_CART event carrying a product has invoked the cart's
\* add operation once.
C27_CartAddPerEvent == cartAdds = cartEvents

\* C28: a ui_update whose action tag is not recognised changes no UI state.
C28_UnknownActionNoEffect ==
  [][\A nav \in NavTargets :
       UnknownAction(1, nav) => UNCHANGED <<uiVars, modalVars, cartVars>>]_vars

\* C29: after an error event is handled its text is held in state that the
\* UI can show.
C29_ErrorSurfaced == lastError # 0 => lastError \in shownTexts

\* C30: an invocation of startVoice whose microphone request was rejected
\* has created no channel and holds no stream, audio context or processor,
\* and the step that rejects it changes no flag, ref or resource.
C30_DeniedNeverStarts ==
  /\ [](\A i \in Sessions :
          startPc[i] = "denied"
            => /\ ws[i] = "none" /\ stream[i] = "none"
               /\ playCtx[i] = "none" /\ capCtx[i] = "none"
               /\ processor[i] = "none")
  /\ [][\A i \in Sessions :
          (startPc[i] = "awaitMic" /\ startPc'[i] = "denied")
            => UNCHANGED <<isConnected, isListening, wsRef, mediaStreamRef,
                           audioContextRef, processorRef, ws, stream,
                           playCtx, capCtx, processor>>]_vars

\* C30 witness: the only invocation was rejected; nothing is connected or
\* held.
C30_Witness ==
  /\ startPc[1] = "denied" /\ startPc[2] = "idle"
  /\ ~isConnected /\ wsRef = NoRef /\ mediaStreamRef = NoRef

\* The view state of the claim: list, total and filter fields.
viewState ==
  [products |-> products, total |-> total,
   category |-> selectedCategory, priceRange |-> priceRange]

\* The manual path from the current state: the filter inputs set to the
\* keys F carries (part_005:466, 500), then the refresh answered with R
\* (part_005:283-285).
ManualPath(F, R) ==
  [products |-> R.products, total |-> R.total,
   category |-> IF F.category # Absent THEN F.category ELSE selectedCategory,
   priceRange |-> IF F.min_price # Absent THEN [min |-> F.min_price]
                  ELSE priceRange]

\* C31: a voice product update with filters F and result R that reaches the
\* mounted view leaves the view's list, total and filter fields as the
\* manual path does: filters set to F by hand and the refresh answered R.
C31_VoiceEqualsManual ==
  [][\A data \in ProductEvents, f \in VoiceFilters :
       (data.has /\ callbackRefs = "live" /\ ShowProducts(1, data, f))
         => viewState' = ManualPath(f, data)]_vars

\* C34: a flush of an empty playback queue changes neither the queue, the
\* re-entrancy guard nor the speaking flag, and a second flush leaves what
\* the first left.
C34_FlushEmptyNoOp ==
  /\ [](FlushQueue(FlushQueue(playbackQueue)) = FlushQueue(playbackQueue))
  /\ [][(playbackQueue = <<>> /\ ClearAudioQueue(1))
          => UNCHANGED <<playbackQueue, isPlayingRef, isSpeaking>>]_vars

\* C35: a close or error event of a channel other than the current one
\* leaves the connected flag and the current session's channel, microphone
\* stream and audio context as they are.
C35_SupersededCloseIgnored ==
  [][\A i \in Sessions :
       ((WsClose(i) \/ WsError(i)) /\ wsRef # NoRef /\ wsRef # i)
         => /\ isConnected' = isConnected
            /\ ws'[wsRef] = ws[wsRef]
            /\ stream'[wsRef] = stream[wsRef]
            /\ playCtx'[wsRef] = playCtx[wsRef]]_vars

\* C36: the guard is set only while an activation of playNextAudio is in
\* progress, so that in a live session no frame waits in the queue without
\* a render that will take it when it ends.
C36_GuardHasRender ==
  /\ (isPlayingRef => \E r \in renders : r.phase \in {"resuming", "playing"})
  /\ (wsRef # NoRef /\ ws[wsRef] = "open" /\ playbackQueue # <<>>)
       => renders # {}

\* C37: while a session is live the muted flag is true exactly when the
\* track of the current microphone stream is disabled.
C37_MutedMatchesTrack ==
  (isConnected /\ mediaStreamRef # NoRef /\ stream[mediaStreamRef] = "live")
    => (isMuted <=> ~trackEnabled[mediaStreamRef])

\* C38: a pending update that the mount effect applies is the payload of
\* the product update handled last.
C38_MountAppliesLatest ==
  [][(MountStep /\ pendingVoiceUpdateRef # <<>> /\ isVoiceUpdateInProgress)
       => /\ pendingVoiceUpdateRef[1].products = lastProducts
          /\ products' = lastProducts]_vars

\* C39: a filter change by the user whose refresh was skipped is not lost:
\* once the flag is down and no clear timer is left, either the refresh is
\* still due or the list is the result of a search with the current filter
\* values.  (In a state with neither, no step but a new input changes the
\* list.)
C39_SkippedRefreshRecovered ==
  (mounted /\ filterEdited /\ ~voiceUpdateFlagRef /\ clearTimers = 0)
    => \/ refreshPending
       \/ products = SearchProducts(QueryParams).products

\* The quantity of product p in the cart; 0 when it has no entry.
quantityOf(items, p) ==
  IF isInCart(items, p)
  THEN (CHOOSE it \in {items[k] : k \in 1..Len(items)} : it.id = p).quantity
  ELSE 0

\* C40: under every sequence of cart calls the cart holds at most one entry
\* per product id and every quantity is at least 1; an add of a product in
\* the cart raises its quantity by 1 and adds no entry, an add of another
\* product appends an entry of quantity 1, and updateQuantity with a
\* quantity of 0 or less removes the entry.
C40_CartWellFormed ==
  /\ [](\A j, k \in 1..Len(cartItems) :
          j # k => cartItems[j].id # cartItems[k].id)
  /\ [](\A k \in 1..Len(cartItems) : cartItems[k].quantity >= 1)
  /\ [][\A p \in CartProducts :
          AddToCartCall(p)
            => /\ quantityOf(cartItems', p) = quantityOf(cartItems, p) + 1
               /\ Len(cartItems') =
                    Len(cartItems) + (IF isInCart(cartItems, p) THEN 0 ELSE 1)]_vars
  /\ [][\A p \in CartProducts, q \in -1..0 :
          UpdateQuantityCall(p, q) => ~isInCart(cartItems', p)]_vars

\* C40 witness: product 2 was added twice and product 1 once after it.
C40_Witness ==
  cartItems = <<[id |-> 2, quantity |-> 2], [id |-> 1, quantity |-> 1]>>

\* One quantization step, 1/32768, in sample units.
QuantStep == SampleDenom \div DecodeScale

\* C32: for every sample in [-1, 1], the value decoded from its encoding is
\* within one quantization step of the sample.
C32_RoundTripWithinStep ==
  (decoded # <<>> /\ sample >= -SampleDenom /\ sample <= SampleDenom)
    => /\ decoded[1] - sample <= QuantStep
       /\ sample - decoded[1] <= QuantStep

\* C33: the value stored for a sample is the scaled value itself, not a
\* wrapped one: it lies in -32768 .. 32767, it is -32768 for every sample
\* at or below -1 and 32767 for every sample at or above 1.
C33_EncodeNeverWraps ==
  pcm16 # <<>>
    => /\ pcm16[1] = Truncated(Clamp(sample))
       /\ pcm16[1] >= -32768 /\ pcm16[1] <= 32767
       /\ (sample <= -SampleDenom => pcm16[1] = -32768)
       /\ (sample >= SampleDenom => pcm16[1] = 32767)

\* C33 witness: a sample above 1 was encoded as 32767.
C33_Witness == sample > SampleDenom /\ pcm16 = <<32767>>

====
